---- MODULE Spec2Model ----
\* Model of the `sign-transaction` subcommand
\* (utils/frame/frame-utilities-cli/src/sign_transaction.rs):
\* the argument struct SignTransactionCmd, SignTransactionCmd::run and
\* print_ext, one action per source line, for one command line that may be
\* executed more than once.
EXTENDS Integers, Sequences, FiniteSets, TLC

\* ---------------------------------------------------------------- bounds
MaxRuns == 2      \* invocations of the command on the same command line
HashLen == 2      \* bytes of the provider's Hash type (P::Hash)
IndexBits == 4    \* width of the provider's Index type (IndexFor<P>)

\* ------------------------------------------------------- values, results
None == [tag |-> "None"]
Some(v) == [tag |-> "Some", val |-> v]
Ok == [tag |-> "Ok"]
Err(kind, at) == [tag |-> "Err", kind |-> kind, at |-> at]
Panic(at) == [tag |-> "Panic", at |-> at]
Good(v) == [ok |-> TRUE, val |-> v]
Bad == [ok |-> FALSE, val |-> <<>>]

RECURSIVE Rep(_, _)
Rep(s, n) == IF n = 0 THEN <<>> ELSE s \o Rep(s, n - 1)

RECURSIVE SumBytes(_)
SumBytes(b) == IF b = <<>> THEN 0 ELSE b[1] + SumBytes(Tail(b))

Front(s) == SubSeq(s, 1, Len(s) - 1)

\* ------------------------------------------------------------ hex codec
LowerHex == <<"0","1","2","3","4","5","6","7","8","9","a","b","c","d","e","f">>
UpperHex == <<"0","1","2","3","4","5","6","7","8","9","A","B","C","D","E","F">>

HexVal(c) ==
  IF \E i \in 1..16 : LowerHex[i] = c
  THEN (CHOOSE i \in 1..16 : LowerHex[i] = c) - 1
  ELSE IF \E i \in 1..16 : UpperHex[i] = c
       THEN (CHOOSE i \in 1..16 : UpperHex[i] = c) - 1
       ELSE -1

\* sc_cli::decode_hex: a string of hex digit pairs to bytes.
decode_hex(s) ==
  IF Len(s) % 2 = 1 \/ \E i \in 1..Len(s) : HexVal(s[i]) = -1
  THEN Bad
  ELSE Good([i \in 1..(Len(s) \div 2) |->
               16 * HexVal(s[2 * i - 1]) + HexVal(s[2 * i])])

\* sp_core::hexdisplay::HexDisplay: every byte as two lowercase hex digits.
HexDisplay(b) ==
  [i \in 1..(2 * Len(b)) |->
     IF i % 2 = 1 THEN LowerHex[(b[(i + 1) \div 2] \div 16) + 1]
                  ELSE LowerHex[(b[(i + 1) \div 2] % 16) + 1]]

\* --------------------------------------------- the provider's typed values
Digits == {"0","1","2","3","4","5","6","7","8","9"}

RECURSIVE DecVal(_)
DecVal(s) == IF s = <<>> THEN 0 ELSE DecVal(Front(s)) * 10 + HexVal(s[Len(s)])

\* GenericNumber::parse::<IndexFor<P>>: FromStr of an unsigned integer.
GenericNumber_parse(s) ==
  IF Len(s) = 0 \/ \E i \in 1..Len(s) : s[i] \notin Digits
  THEN Bad
  ELSE IF DecVal(s) >= 2 ^ IndexBits THEN Bad ELSE Good(DecVal(s))

\* <P::Hash as Decode>::decode: a fixed-size array; input beyond it is ignored.
Hash_decode(b) == IF Len(b) < HashLen THEN Bad ELSE Good(SubSeq(b, 1, HashLen))

\* CallFor::<P>::decode: an enum of two variants, the second with a one-byte
\* argument; input beyond the value is ignored.
Call_decode(b) ==
  IF Len(b) = 0 THEN Bad
  ELSE IF b[1] = 0 THEN Good([variant |-> 0, arg |-> 0])
  ELSE IF b[1] = 1 /\ Len(b) >= 2 THEN Good([variant |-> 1, arg |-> b[2]])
  ELSE Bad

Call_encode(c) == IF c.variant = 0 THEN <<0>> ELSE <<1, c.arg>>

\* ------------------------------------------------------------- keystore
\* KeystoreParams::read_password
read_password(k) ==
  IF k = "broken" THEN Bad
  ELSE IF k = "given" THEN Good(Some("pw"))
  ELSE Good(None)

\* ------------------------------------------------------ scheme dispatcher
Schemes == {"Sr25519", "Ed25519", "Ecdsa"}

\* with_crypto_scheme!: the key-pair type instantiated for a scheme.
with_crypto_scheme(scheme) ==
  CASE scheme = "Sr25519" -> "sr25519::Pair"
    [] scheme = "Ed25519" -> "ed25519::Pair"
    [] scheme = "Ecdsa"   -> "ecdsa::Pair"

\* ------------------------------------------------ key pair and extrinsic
ValidSuris == {"//Alice"}

PairTag(pairType) ==
  CASE pairType = "sr25519::Pair" -> 1
    [] pairType = "ed25519::Pair" -> 0
    [] pairType = "ecdsa::Pair"   -> 2

\* sc_cli::pair_from_suri::<Pair>: the pair of a secret URI and password.
pair_from_suri(pairType, uri, pass) ==
  IF uri \in ValidSuris
  THEN Good([pairType |-> pairType,
             seed |-> IF pass = None THEN 212 ELSE 77])
  ELSE Bad

Public(pair) == <<PairTag(pair.pairType), (pair.seed * 3 + 1) % 256>>

Sign(pair, msg) ==
  <<PairTag(pair.pairType), (pair.seed + SumBytes(msg)) % 256>>

\* SignedExtensionProvider: the signed extensions of (nonce, prior block hash);
\* the provider does not know the all-ones hash.
construct_extras(n, h) ==
  IF h = Rep(<<255>>, HashLen) THEN Bad ELSE Good([nonce |-> n, hash |-> h])

Extra_encode(e) == <<e.nonce>> \o e.hash

\* crate::utils::create_extrinsic_for
create_extrinsic_for(c, n, pair, h) ==
  LET ex == construct_extras(n, h) IN
  IF ~ex.ok THEN Bad
  ELSE Good([address   |-> Public(pair),
             signature |-> Sign(pair, Call_encode(c) \o Extra_encode(ex.val)),
             call      |-> c,
             extra     |-> ex.val])

\* Encode::encode of the extrinsic
Extrinsic_encode(x) ==
  x.address \o x.signature \o Call_encode(x.call) \o Extra_encode(x.extra)

\* ---------------------------------------------------------------- inputs
SuriInputs == {"//Alice", "not a phrase"}
NonceInputs == {<<"0">>, <<"7">>, <<"9", "9">>, <<"x">>, <<>>}
HashInputs ==
  { Rep(<<"0", "0">>, HashLen), Rep(<<"A", "b">>, HashLen),
    Rep(<<"f", "f">>, HashLen), <<"0", "0">>, <<"0">>, <<"z", "z">> }
CallInputs ==
  { <<"0", "0">>, <<"0", "1", "0", "5">>, <<"0", "7">>, <<>>,
    <<"0">>, <<"0", "g">> }
KeystoreInputs == {"none", "given", "broken"}

\* ----------------------------------------------------------------- state
VARIABLES
  args,       \* the command line (first: the hex argument given first)
  cmd,        \* the SignTransactionCmd built from it
  pc,         \* position in the code
  nonce, hash, call, password,   \* locals of run
  pairType,   \* the Pair type print_ext is instantiated with
  signer, extrinsic,             \* locals of print_ext
  extResult,  \* what print_ext returned
  result,     \* outcome of the command
  stdout,     \* lines written to standard output by this invocation
  trace,      \* the steps executed by this invocation, in order
  runs,       \* number of the current invocation
  prev        \* outcome of the previous invocation

vars == <<args, cmd, pc, nonce, hash, call, password, pairType, signer,
          extrinsic, extResult, result, stdout, trace, runs, prev>>

locals == <<nonce, hash, call, password, pairType, signer, extrinsic>>

Step(name, ok) == [step |-> name, ok |-> ok]

Init ==
  /\ args \in [suri : SuriInputs, scheme : Schemes, nonce : NonceInputs,
               prior_block_hash : HashInputs, call : CallInputs,
               keystore : KeystoreInputs,
               first : {"prior_block_hash", "call"}]
  /\ cmd = None
  /\ pc = "start"
  /\ nonce = None /\ hash = None /\ call = None /\ password = None
  /\ pairType = None /\ signer = None /\ extrinsic = None
  /\ extResult = None
  /\ result = None
  /\ stdout = <<>>
  /\ trace = <<>>
  /\ runs = 1
  /\ prev = None

\* --------------------------------------------------------------- actions
\* ParseArgs with a hex parser that skips what it cannot read instead of failing.
LossyHexVal(c) == IF HexVal(c) = -1 THEN 0 ELSE HexVal(c)

LossyHex(s) ==
  [i \in 1..(Len(s) \div 2) |->
     16 * LossyHexVal(s[2 * i - 1]) + LossyHexVal(s[2 * i])]

ParseArgs_lossyHex ==
  /\ pc = "start"
  /\ cmd' = Some([suri |-> args.suri, nonce |-> args.nonce,
                  prior_block_hash |-> LossyHex(args.prior_block_hash),
                  call |-> LossyHex(args.call),
                  keystore_params |-> args.keystore,
                  crypto_scheme |-> args.scheme])
  /\ trace' = Append(trace, Step("from_args", TRUE))
  /\ pc' = "run81"
  /\ UNCHANGED <<args, locals, extResult, result, stdout, runs, prev>>

\* StructOpt builds the command: both hex arguments go through decode_hex; of
\* two malformed ones the error of the first on the command line is reported.
ParseArgs ==
  /\ pc = "start"
  /\ LET h == decode_hex(args.prior_block_hash)
         c == decode_hex(args.call)
     IN IF h.ok /\ c.ok
        THEN /\ cmd' = Some([suri |-> args.suri, nonce |-> args.nonce,
                             prior_block_hash |-> h.val, call |-> c.val,
                             keystore_params |-> args.keystore,
                             crypto_scheme |-> args.scheme])
             /\ trace' = Append(trace, Step("from_args", TRUE))
             /\ pc' = "run81"
             /\ UNCHANGED result
        ELSE /\ result' = Err("DecodeError",
                             IF ~h.ok /\ ~c.ok THEN args.first
                             ELSE IF ~h.ok THEN "prior_block_hash" ELSE "call")
             /\ trace' = Append(trace, Step("from_args", FALSE))
             /\ pc' = "done"
             /\ UNCHANGED cmd
  /\ UNCHANGED <<args, locals, extResult, stdout, runs, prev>>

\* RunParseNonce with the parse error replaced by a default (unwrap_or_default).
RunParseNonce_default ==
  /\ pc = "run81"
  /\ LET r == GenericNumber_parse(cmd.val.nonce)
     IN nonce' = Some(IF r.ok THEN r.val ELSE 0)
  /\ pc' = "run82"
  /\ trace' = Append(trace,
                Step("parse_nonce", GenericNumber_parse(cmd.val.nonce).ok))
  /\ UNCHANGED <<args, cmd, hash, call, password, pairType, signer, extrinsic,
                 extResult, result, stdout, runs, prev>>

\* RunParseNonce with lines 81 and 82 exchanged: the hash is checked first.
RunParseNonce_hashFirst ==
  /\ pc = "run81"
  /\ IF ~Hash_decode(cmd.val.prior_block_hash).ok
     THEN /\ result' = Err("DecodeError", "prior_block_hash")
          /\ pc' = "done"
          /\ trace' = Append(trace, Step("decode_hash", FALSE))
          /\ UNCHANGED nonce
     ELSE /\ LET r == GenericNumber_parse(cmd.val.nonce)
             IN IF r.ok
                THEN /\ nonce' = Some(r.val)
                     /\ pc' = "run82"
                     /\ UNCHANGED result
                ELSE /\ result' = Err("ParseError", "nonce")
                     /\ pc' = "done"
                     /\ UNCHANGED nonce
          /\ trace' = Append(trace,
                        Step("parse_nonce", GenericNumber_parse(cmd.val.nonce).ok))
  /\ UNCHANGED <<args, cmd, hash, call, password, pairType, signer, extrinsic,
                 extResult, stdout, runs, prev>>

\* let nonce = self.nonce.parse::<IndexFor<P>>()?;
RunParseNonce ==
  /\ pc = "run81"
  /\ LET r == GenericNumber_parse(cmd.val.nonce)
     IN IF r.ok
        THEN /\ nonce' = Some(r.val)
             /\ pc' = "run82"
             /\ UNCHANGED result
        ELSE /\ result' = Err("ParseError", "nonce")
             /\ pc' = "done"
             /\ UNCHANGED nonce
  /\ trace' = Append(trace,
                Step("parse_nonce", GenericNumber_parse(cmd.val.nonce).ok))
  /\ UNCHANGED <<args, cmd, hash, call, password, pairType, signer, extrinsic,
                 extResult, stdout, runs, prev>>

\* let hash = <P::Hash as Decode>::decode(&mut &self.prior_block_hash[..])?;
RunDecodeHash ==
  /\ pc = "run82"
  /\ LET r == Hash_decode(cmd.val.prior_block_hash)
     IN IF r.ok
        THEN /\ hash' = Some(r.val)
             /\ pc' = "run83"
             /\ UNCHANGED result
        ELSE /\ result' = Err("DecodeError", "prior_block_hash")
             /\ pc' = "done"
             /\ UNCHANGED hash
  /\ trace' = Append(trace,
                Step("decode_hash", Hash_decode(cmd.val.prior_block_hash).ok))
  /\ UNCHANGED <<args, cmd, nonce, call, password, pairType, signer, extrinsic,
                 extResult, stdout, runs, prev>>

\* RunDecodeCall without the `?`: a failed decode goes on with a default call.
RunDecodeCall_unchecked ==
  /\ pc = "run83"
  /\ LET r == Call_decode(cmd.val.call)
     IN call' = Some(IF r.ok THEN r.val ELSE [variant |-> 0, arg |-> 0])
  /\ pc' = "run84"
  /\ trace' = Append(trace, Step("decode_call", Call_decode(cmd.val.call).ok))
  /\ UNCHANGED <<args, cmd, nonce, hash, password, pairType, signer, extrinsic,
                 extResult, result, stdout, runs, prev>>

\* let call = CallFor::<P>::decode(&mut &self.call[..])?;
RunDecodeCall ==
  /\ pc = "run83"
  /\ LET r == Call_decode(cmd.val.call)
     IN IF r.ok
        THEN /\ call' = Some(r.val)
             /\ pc' = "run84"
             /\ UNCHANGED result
        ELSE /\ result' = Err("DecodeError", "call")
             /\ pc' = "done"
             /\ UNCHANGED call
  /\ trace' = Append(trace, Step("decode_call", Call_decode(cmd.val.call).ok))
  /\ UNCHANGED <<args, cmd, nonce, hash, password, pairType, signer, extrinsic,
                 extResult, stdout, runs, prev>>

\* let password = self.keystore_params.read_password()?;
RunReadPassword ==
  /\ pc = "run84"
  /\ LET r == read_password(cmd.val.keystore_params)
     IN IF r.ok
        THEN /\ password' = r.val
             /\ pc' = "run86"
             /\ UNCHANGED result
        ELSE /\ result' = Err("KeystoreError", "keystore")
             /\ pc' = "done"
             /\ UNCHANGED password
  /\ trace' = Append(trace,
                Step("read_password", read_password(cmd.val.keystore_params).ok))
  /\ UNCHANGED <<args, cmd, nonce, hash, call, pairType, signer, extrinsic,
                 extResult, stdout, runs, prev>>

\* RunDispatch that ignores self.crypto_scheme.scheme.
RunDispatch_fixed ==
  /\ pc = "run86"
  /\ pairType' = Some(with_crypto_scheme("Sr25519"))
  /\ trace' = Append(trace, Step("print_ext", TRUE))
  /\ pc' = "ext121"
  /\ UNCHANGED <<args, cmd, nonce, hash, call, password, signer, extrinsic,
                 extResult, result, stdout, runs, prev>>

\* with_crypto_scheme!(self.crypto_scheme.scheme, print_ext<P>(...)): the call
RunDispatch ==
  /\ pc = "run86"
  /\ pairType' = Some(with_crypto_scheme(cmd.val.crypto_scheme))
  /\ trace' = Append(trace, Step("print_ext", TRUE))
  /\ pc' = "ext121"
  /\ UNCHANGED <<args, cmd, nonce, hash, call, password, signer, extrinsic,
                 extResult, result, stdout, runs, prev>>

\* let signer = pair_from_suri::<Pair>(uri, pass);
\* The value is used as the pair: a failed derivation does not return.
ExtPairFromSuri ==
  /\ pc = "ext121"
  /\ LET r == pair_from_suri(pairType.val, cmd.val.suri, password)
     IN IF r.ok
        THEN /\ signer' = Some(r.val)
             /\ pc' = "ext122"
             /\ UNCHANGED result
        ELSE /\ result' = Panic("pair_from_suri")
             /\ pc' = "done"
             /\ UNCHANGED signer
  /\ trace' = Append(trace,
                Step("pair_from_suri",
                     pair_from_suri(pairType.val, cmd.val.suri, password).ok))
  /\ UNCHANGED <<args, cmd, nonce, hash, call, password, pairType, extrinsic,
                 extResult, stdout, runs, prev>>

\* ExtCreateExtrinsic with a nonce advanced by a counter kept between invocations.
ExtCreateExtrinsic_counter ==
  /\ pc = "ext122"
  /\ LET r == create_extrinsic_for(call.val,
                 (nonce.val + runs - 1) % (2 ^ IndexBits), signer.val, hash.val)
     IN /\ IF r.ok
           THEN /\ extrinsic' = Some(r.val)
                /\ pc' = "ext123"
                /\ UNCHANGED extResult
           ELSE /\ extResult' = Err("ProviderError", "create_extrinsic_for")
                /\ pc' = "run89"
                /\ UNCHANGED extrinsic
        /\ trace' = Append(trace, Step("create_extrinsic_for", r.ok))
  /\ UNCHANGED <<args, cmd, nonce, hash, call, password, pairType, signer,
                 result, stdout, runs, prev>>

\* let extrinsic = create_extrinsic_for::<Pair, P, P::Call>(call, nonce, signer, hash)?;
ExtCreateExtrinsic ==
  /\ pc = "ext122"
  /\ LET r == create_extrinsic_for(call.val, nonce.val, signer.val, hash.val)
     IN /\ IF r.ok
           THEN /\ extrinsic' = Some(r.val)
                /\ pc' = "ext123"
                /\ UNCHANGED extResult
           ELSE /\ extResult' = Err("ProviderError", "create_extrinsic_for")
                /\ pc' = "run89"
                /\ UNCHANGED extrinsic
        /\ trace' = Append(trace, Step("create_extrinsic_for", r.ok))
  /\ UNCHANGED <<args, cmd, nonce, hash, call, password, pairType, signer,
                 result, stdout, runs, prev>>

\* ExtPrintln without the "0x" prefix.
ExtPrintln_noPrefix ==
  /\ pc = "ext123"
  /\ stdout' = Append(stdout, HexDisplay(Extrinsic_encode(extrinsic.val)))
  /\ trace' = Append(trace, Step("println", TRUE))
  /\ pc' = "ext124"
  /\ UNCHANGED <<args, cmd, locals, extResult, result, runs, prev>>

\* println!("0x{}", HexDisplay::from(&extrinsic.encode()));
ExtPrintln ==
  /\ pc = "ext123"
  /\ stdout' = Append(stdout,
                 <<"0", "x">> \o HexDisplay(Extrinsic_encode(extrinsic.val)))
  /\ trace' = Append(trace, Step("println", TRUE))
  /\ pc' = "ext124"
  /\ UNCHANGED <<args, cmd, locals, extResult, result, runs, prev>>

\* Ok(())
ExtReturn ==
  /\ pc = "ext124"
  /\ extResult' = Ok
  /\ pc' = "run89"
  /\ UNCHANGED <<args, cmd, locals, result, stdout, trace, runs, prev>>

\* RunReturn that reports the outcome on standard output itself.
RunReturn_verbose ==
  /\ pc = "run89"
  /\ result' = extResult
  /\ stdout' = Append(stdout, <<"d", "o", "n", "e">>)
  /\ pc' = "done"
  /\ UNCHANGED <<args, cmd, locals, extResult, trace, runs, prev>>

\* the value of with_crypto_scheme!(...) is the value of run
RunReturn ==
  /\ pc = "run89"
  /\ result' = extResult
  /\ pc' = "done"
  /\ UNCHANGED <<args, cmd, locals, extResult, stdout, trace, runs, prev>>

\* the same command line is executed again
Restart ==
  /\ pc = "done"
  /\ runs < MaxRuns
  /\ prev' = Some([result |-> result, stdout |-> stdout])
  /\ runs' = runs + 1
  /\ cmd' = None
  /\ pc' = "start"
  /\ nonce' = None /\ hash' = None /\ call' = None /\ password' = None
  /\ pairType' = None /\ signer' = None /\ extrinsic' = None
  /\ extResult' = None
  /\ result' = None
  /\ stdout' = <<>>
  /\ trace' = <<>>
  /\ UNCHANGED args

Next ==
  \/ ParseArgs
  \/ RunParseNonce
  \/ RunDecodeHash
  \/ RunDecodeCall
  \/ RunReadPassword
  \/ RunDispatch
  \/ ExtPairFromSuri
  \/ ExtCreateExtrinsic
  \/ ExtPrintln
  \/ ExtReturn
  \/ RunReturn
  \/ Restart

Spec == Init /\ [][Next]_vars

\* ------------------------------------------------------------- claims
Did(name) == \E i \in 1..Len(trace) : trace[i].step = name
Count(name) == Cardinality({i \in 1..Len(trace) : trace[i].step = name})

HexChars == {LowerHex[i] : i \in 1..16} \cup {UpperHex[i] : i \in 1..16}
LowerHexChars == {LowerHex[i] : i \in 1..16}

\* odd length, or a character that is no hex digit
MalformedHex(s) == Len(s) % 2 = 1 \/ \E i \in 1..Len(s) : s[i] \notin HexChars
\* no decimal number
NonNumeric(s) == s = <<>> \/ \E i \in 1..Len(s) : s[i] \notin Digits

NonceOk == GenericNumber_parse(args.nonce).ok
HashOk ==
  /\ decode_hex(args.prior_block_hash).ok
  /\ Hash_decode(decode_hex(args.prior_block_hash).val).ok
CallOk ==
  /\ decode_hex(args.call).ok
  /\ Call_decode(decode_hex(args.call).val).ok

\* C1: whenever the keystore password has been read or the key pair derivation
\* has started, the nonce, the prior block hash and the call have each been
\* decoded successfully, earlier in the same execution.
C1_DecodeBeforeKeyMaterial ==
  \A i \in 1..Len(trace) :
    trace[i].step \in {"read_password", "pair_from_suri"} =>
      /\ nonce.tag = "Some" /\ hash.tag = "Some" /\ call.tag = "Some"
      /\ NonceOk /\ HashOk /\ CallOk
      /\ \A s \in {"parse_nonce", "decode_hash", "decode_call"} :
           \E j \in 1..(i - 1) : trace[j] = Step(s, TRUE)

C1_Witness == Did("read_password") /\ Did("pair_from_suri") /\ signer.tag = "Some"

ErrorKindOf(step) ==
  CASE step = "from_args" -> "DecodeError"
    [] step = "parse_nonce" -> "ParseError"
    [] step = "decode_hash" -> "DecodeError"
    [] step = "decode_call" -> "DecodeError"
    [] step = "read_password" -> "KeystoreError"
    [] step = "pair_from_suri" -> "KeyDerivationError"
    [] step = "create_extrinsic_for" -> "ProviderError"
    [] OTHER -> "none"

\* C2: a step that fails is the last step executed, nothing is on standard
\* output, and the command ends with that step's error as its result; a line is
\* printed only when every step succeeded.
C2_FailureStopsAndReturnsError ==
  /\ \A i \in 1..Len(trace) :
       ~trace[i].ok =>
         /\ i = Len(trace)
         /\ stdout = <<>>
         /\ pc = "done" =>
              /\ result.tag = "Err"
              /\ result.kind = ErrorKindOf(trace[i].step)
  /\ (pc = "done" /\ stdout # <<>>) => result = Ok

\* C3: with a malformed hex string for `call` or `prior_block_hash` the command
\* ends with a DecodeError and the key derivation is never invoked.
C3_MalformedHexNeverReachesKeys ==
  (MalformedHex(args.prior_block_hash) \/ MalformedHex(args.call)) =>
    /\ ~Did("pair_from_suri")
    /\ signer = None
    /\ pc = "done" => (result.tag = "Err" /\ result.kind = "DecodeError")

C3_Witness ==
  /\ pc = "done"
  /\ MalformedHex(args.call)
  /\ ~MalformedHex(args.prior_block_hash)
  /\ result = Err("DecodeError", "call")

\* C4 as stated: with a non-numeric nonce the command always ends with the nonce
\* parse error, and neither key derivation nor signing happens.
C4_NonNumericNonceAlwaysParseError ==
  NonNumeric(args.nonce) =>
    /\ ~Did("pair_from_suri") /\ ~Did("create_extrinsic_for")
    /\ pc = "done" => result = Err("ParseError", "nonce")

\* C4 amended: with a non-numeric nonce the command always fails and neither
\* key derivation nor signing happens; the failure is the nonce parse error
\* when both hex arguments are well-formed hex, and the hex DecodeError of
\* argument parsing otherwise.
C4_NonNumericNonceFails ==
  NonNumeric(args.nonce) =>
    /\ ~Did("pair_from_suri") /\ ~Did("create_extrinsic_for")
    /\ signer = None /\ extrinsic = None /\ stdout = <<>>
    /\ pc = "done" =>
         IF MalformedHex(args.prior_block_hash) \/ MalformedHex(args.call)
         THEN result.tag = "Err" /\ result.kind = "DecodeError"
         ELSE result = Err("ParseError", "nonce")

C4_Witness ==
  /\ pc = "done"
  /\ NonNumeric(args.nonce)
  /\ Did("parse_nonce")
  /\ result = Err("ParseError", "nonce")

\* C5: when the secret URI is rejected by the key derivation, the command ends
\* with a KeyDerivationError as the returned error value, without building an
\* extrinsic and without printing.
C5_BadSuriReturnsKeyDerivationError ==
  (pc = "done" /\ Did("pair_from_suri") /\ args.suri \notin ValidSuris) =>
    /\ result.tag = "Err"
    /\ result.kind = "KeyDerivationError"
    /\ ~Did("create_extrinsic_for")
    /\ stdout = <<>>

\* C6 as stated: the builder never prints, so nothing is on standard output
\* until the builder has returned.
C6_BuilderNeverPrints == extResult = None => stdout = <<>>

\* C6 amended: standard output is written by the builder print_ext only, once,
\* by its println after the extrinsic was built and right before it returns Ok;
\* argument parsing and run write nothing (a new invocation starts with an
\* empty output).
C6_OnlyBuilderPrintsOnce ==
  [][stdout' # stdout =>
       \/ /\ pc = "ext123" /\ pc' = "ext124"
          /\ extrinsic.tag = "Some"
          /\ stdout = <<>> /\ Len(stdout') = 1
       \/ /\ pc = "done" /\ pc' = "start" /\ stdout' = <<>>]_vars

C6_Witness == pc = "ext124" /\ extResult = None /\ Len(stdout) = 1

\* C7: when the command ends with Ok, standard output holds exactly one line,
\* printed once: "0x" followed by two lowercase hex digits for every byte of the
\* encoded signed extrinsic built from the decoded call, nonce and hash.
C7_SingleHexLine ==
  /\ Len(stdout) <= 1
  /\ (pc = "done" /\ result = Ok) =>
       /\ Len(stdout) = 1
       /\ Count("println") = 1
       /\ extrinsic.val.call = call.val
       /\ extrinsic.val.extra = [nonce |-> nonce.val, hash |-> hash.val]
       /\ LET line == stdout[1]
              bytes == Extrinsic_encode(extrinsic.val)
          IN /\ Len(line) = 2 + 2 * Len(bytes)
             /\ line[1] = "0" /\ line[2] = "x"
             /\ \A k \in 1..Len(bytes) :
                  /\ line[2 * k + 1] \in LowerHexChars
                  /\ line[2 * k + 2] \in LowerHexChars
                  /\ 16 * HexVal(line[2 * k + 1]) + HexVal(line[2 * k + 2])
                       = bytes[k]

C7_Witness ==
  /\ pc = "done" /\ result = Ok /\ Len(stdout) = 1
  /\ \E k \in 1..Len(stdout[1]) : stdout[1][k] \in {"a", "b", "c", "d", "e", "f"}

PairTypeFor(scheme) ==
  IF scheme = "Sr25519" THEN "sr25519::Pair"
  ELSE IF scheme = "Ed25519" THEN "ed25519::Pair"
  ELSE "ecdsa::Pair"

\* C8: for each of the three schemes the generic routine is invoked exactly
\* once, with the key-pair type of that scheme, and the command's result is
\* what the routine returned.
C8_DispatchMatchesScheme ==
  Did("print_ext") =>
    /\ Count("print_ext") = 1
    /\ Count("pair_from_suri") <= 1
    /\ pairType = Some(PairTypeFor(args.scheme))
    /\ signer.tag = "Some" => signer.val.pairType = PairTypeFor(args.scheme)
    /\ pc = "done" =>
         IF extResult = None THEN result = Panic("pair_from_suri")
         ELSE result = extResult

C8_Witness ==
  /\ pc = "done" /\ result = Ok /\ extResult = Ok
  /\ args.scheme = "Ecdsa"
  /\ signer.tag = "Some" /\ signer.val.pairType = "ecdsa::Pair"

C10_FirstFailureWins ==
  /\ Count("read_password") <= 1
  /\ Did("read_password") =>
       /\ NonceOk /\ HashOk /\ CallOk
       /\ nonce.tag = "Some" /\ hash.tag = "Some" /\ call.tag = "Some"
  /\ (pc = "done" /\ cmd.tag = "Some") =>
       IF ~NonceOk THEN result = Err("ParseError", "nonce")
       ELSE IF ~HashOk THEN result = Err("DecodeError", "prior_block_hash")
       ELSE IF ~CallOk THEN result = Err("DecodeError", "call")
       ELSE IF ~read_password(args.keystore).ok
            THEN result = Err("KeystoreError", "keystore")
       ELSE result \notin {Err("ParseError", "nonce"),
                           Err("DecodeError", "prior_block_hash"),
                           Err("DecodeError", "call"),
                           Err("KeystoreError", "keystore")}

C10_Witness ==
  /\ pc = "done" /\ cmd.tag = "Some"
  /\ ~NonceOk /\ ~HashOk /\ ~CallOk /\ ~read_password(args.keystore).ok
  /\ result = Err("ParseError", "nonce")

====
